---- MODULE Spec2Model ----
(***************************************************************************)
(* Model of the two algorithmic parts of the festival programme app:       *)
(*   - calculateOverlapLayout / seancesOverlap  (src/lib/schedule-utils.ts) *)
(*   - migrateFavorites and the favorites store (src/lib/favorites.ts)      *)
(*                                                                         *)
(* A time-of-day string "HH:MM" is represented by the record               *)
(* [hh |-> HH, mm |-> MM] of its two ':'-separated numeric fields; the     *)
(* conversion to minutes is timeToMinutes below.  Array indices are        *)
(* 0-based as in the source; At(arr, i) reads arr[i].                      *)
(***************************************************************************)
EXTENDS Integers, Sequences, FiniteSets, TLC

VARIABLES
    seances,       \* the argument array of calculateOverlapLayout
    layouts,       \* the map returned by the latest call
    prevLayouts,   \* the map returned by the call before it
    input0,        \* the list as it was first given
    runs,          \* number of calls made so far, counted up to two
    store,         \* IndexedDB object store 'favorites': filmId -> addedAt
    migrationKey,  \* localStorage[MIGRATION_KEY]: "null" or "true"
    env,           \* "server" (no window), "noIDB" or "browser"
    dbOpen,        \* dbPromise !== null
    programme,     \* the screenings DayNavigator hands to migrateFavorites
    mig,           \* the run of migrateFavorites in progress
    calls,         \* number of migrateFavorites calls started
    awaited,       \* the caller awaits migrateFavorites before any other store call
    callStore,     \* the store as the awaited run in progress found it when called
    favSet,        \* the identifiers put and not deleted or cleared since
    tog,           \* the calls of toggleFavorite, each with its position
    mig2,          \* a second run of migrateFavorites, started by a second effect
    store0,        \* the store as the session found it
    startup,       \* position of each run of DayNavigator's startup effect
    uiFavorites    \* DayNavigator's favorites state (setFavorites)

layoutVars == <<seances, layouts, prevLayouts, input0, runs>>

favVars == <<store, migrationKey, env, dbOpen, programme, mig, calls,
             awaited, callStore, favSet>>

sessionVars == <<tog, mig2, store0, startup, uiFavorites>>

vars == <<seances, layouts, prevLayouts, input0, runs,
          store, migrationKey, env, dbOpen, programme, mig, calls,
          awaited, callStore, favSet,
          tog, mig2, store0, startup, uiFavorites>>

(***************************************************************************)
(* Bounds of the layout model                                              *)
(***************************************************************************)
MaxLen == 3

\* the time grid: 09:00, 09:30, 10:00, 10:30, 11:00
Slots == 0 .. 4

(***************************************************************************)
(* schedule-utils.ts                                                       *)
(***************************************************************************)
timeToMinutes(time) == time.hh * 60 + time.mm

TimeStrings == {[hh |-> 9 + (k \div 2), mm |-> 30 * (k % 2)] : k \in Slots}

\* the events of the model: every event with startTime < endTime on the
\* grid, the zero-length ones, and those that end one slot before they start
SeanceValues ==
    {e \in [heureDebut : TimeStrings, heureFin : TimeStrings] :
        timeToMinutes(e.heureFin) - timeToMinutes(e.heureDebut) >= -30}

At(arr, i) == arr[i + 1]

Indices(arr) == 0 .. (Len(arr) - 1)

seancesOverlap_Closed(a, b) ==
    LET aStart == timeToMinutes(a.heureDebut)
        aEnd   == timeToMinutes(a.heureFin)
        bStart == timeToMinutes(b.heureDebut)
        bEnd   == timeToMinutes(b.heureFin)
    IN  aStart <= bEnd /\ bStart <= aEnd

seancesOverlap(a, b) ==
    LET aStart == timeToMinutes(a.heureDebut)
        aEnd   == timeToMinutes(a.heureFin)
        bStart == timeToMinutes(b.heureDebut)
        bEnd   == timeToMinutes(b.heureFin)
    IN  aStart < bEnd /\ bStart < aEnd

\* Array.prototype.sort is stable: x goes after every element whose key is
\* not greater than its own.
RECURSIVE InsertByStart(_, _, _)
InsertByStart(ss, sorted, x) ==
    IF sorted = <<>> THEN <<x>>
    ELSE IF timeToMinutes(At(ss, Head(sorted)).heureDebut)
              - timeToMinutes(At(ss, x).heureDebut) > 0
         THEN <<x>> \o sorted
         ELSE <<Head(sorted)>> \o InsertByStart(ss, Tail(sorted), x)

RECURSIVE SortByStart(_, _)
SortByStart(ss, idxs) ==
    IF idxs = <<>> THEN <<>>
    ELSE InsertByStart(ss, SortByStart(ss, SubSeq(idxs, 1, Len(idxs) - 1)),
                       idxs[Len(idxs)])

Indexed_FromLast(ss) == SortByStart(ss, [k \in 1 .. Len(ss) |-> Len(ss) - k])

\* indexed: the original indices 0..n-1 in the order left by the sort of
\* the copy made by seances.map(...)
Indexed(ss) == SortByStart(ss, [k \in 1 .. Len(ss) |-> k - 1])

SeqToSet(s) == {s[k] : k \in 1 .. Len(s)}

RECURSIVE ExpandPass_SeedOnly(_, _, _, _, _, _)
ExpandPass_SeedOnly(ss, indexed, j, group, assigned, expanded) ==
    IF j >= Len(indexed) THEN [group |-> group, assigned |-> assigned, expanded |-> expanded]
    ELSE LET oj == At(indexed, j) IN
         IF oj \in assigned
         THEN ExpandPass_SeedOnly(ss, indexed, j + 1, group, assigned, expanded)
         ELSE IF seancesOverlap(At(ss, group[1]), At(ss, oj))
              THEN ExpandPass_SeedOnly(ss, indexed, j + 1, Append(group, oj),
                                       assigned \cup {oj}, TRUE)
              ELSE ExpandPass_SeedOnly(ss, indexed, j + 1, group, assigned, expanded)

\* one execution of the inner for (j) loop, from position j on
RECURSIVE ExpandPass(_, _, _, _, _, _)
ExpandPass(ss, indexed, j, group, assigned, expanded) ==
    IF j >= Len(indexed) THEN [group |-> group, assigned |-> assigned, expanded |-> expanded]
    ELSE LET oj == At(indexed, j) IN
         IF oj \in assigned
         THEN ExpandPass(ss, indexed, j + 1, group, assigned, expanded)
         ELSE IF \E k \in 1 .. Len(group) : seancesOverlap(At(ss, group[k]), At(ss, oj))
              THEN ExpandPass(ss, indexed, j + 1, Append(group, oj),
                              assigned \cup {oj}, TRUE)
              ELSE ExpandPass(ss, indexed, j + 1, group, assigned, expanded)

\* while (expanded) { ... }
RECURSIVE ExpandGroup(_, _, _, _)
ExpandGroup(ss, indexed, group, assigned) ==
    LET r == ExpandPass(ss, indexed, 0, group, assigned, FALSE) IN
    IF r.expanded THEN ExpandGroup(ss, indexed, r.group, r.assigned)
    ELSE r

RECURSIVE FirstFreeColumn_NoNegation(_, _, _, _)
FirstFreeColumn_NoNegation(ss, columns, col, idx) ==
    IF col >= Len(columns) THEN Len(columns)
    ELSE IF \A k \in 1 .. Len(At(columns, col)) :
                seancesOverlap(At(ss, idx), At(ss, At(columns, col)[k]))
         THEN col
         ELSE FirstFreeColumn_NoNegation(ss, columns, col + 1, idx)

\* first column (from col on) whose members all do not overlap idx;
\* Len(columns) when there is none
RECURSIVE FirstFreeColumn(_, _, _, _)
FirstFreeColumn(ss, columns, col, idx) ==
    IF col >= Len(columns) THEN Len(columns)
    ELSE IF \A k \in 1 .. Len(At(columns, col)) :
                ~seancesOverlap(At(ss, idx), At(ss, At(columns, col)[k]))
         THEN col
         ELSE FirstFreeColumn(ss, columns, col + 1, idx)

PlaceInColumn_SkipColumnZero(ss, columns, idx) ==
    LET col == FirstFreeColumn(ss, columns, 1, idx) IN
    IF col < Len(columns)
    THEN [columns EXCEPT ![col + 1] = Append(@, idx)]
    ELSE Append(columns, <<idx>>)

PlaceInColumn_AlwaysNew(ss, columns, idx) == Append(columns, <<idx>>)

PlaceInColumn(ss, columns, idx) ==
    LET col == FirstFreeColumn(ss, columns, 0, idx) IN
    IF col < Len(columns)
    THEN [columns EXCEPT ![col + 1] = Append(@, idx)]
    ELSE Append(columns, <<idx>>)

\* for (const idx of group) { ... } over the sorted group
RECURSIVE AssignColumns(_, _, _)
AssignColumns(ss, sortedGroup, columns) ==
    IF sortedGroup = <<>> THEN columns
    ELSE AssignColumns(ss, Tail(sortedGroup),
                       PlaceInColumn(ss, columns, Head(sortedGroup)))

GroupLayouts_SkipLast(columns) ==
    LET members == UNION {SeqToSet(columns[c]) : c \in 1 .. (Len(columns) - 1)} IN
    [idx \in members |->
        [column |-> (CHOOSE c \in 1 .. Len(columns) : idx \in SeqToSet(columns[c])) - 1,
         totalColumns |-> Len(columns)]]

GroupLayouts_OffByOne(columns) ==
    LET members == UNION {SeqToSet(columns[c]) : c \in 1 .. Len(columns)} IN
    [idx \in members |->
        [column |-> (CHOOSE c \in 1 .. Len(columns) : idx \in SeqToSet(columns[c])) - 1,
         totalColumns |-> Len(columns) - 1]]

\* layouts.set(idx, { column: col, totalColumns }) for every member
GroupLayouts(columns) ==
    LET members == UNION {SeqToSet(columns[c]) : c \in 1 .. Len(columns)} IN
    [idx \in members |->
        [column |-> (CHOOSE c \in 1 .. Len(columns) : idx \in SeqToSet(columns[c])) - 1,
         totalColumns |-> Len(columns)]]

\* the outer for (i) loop, from position i on
RECURSIVE LayoutLoop(_, _, _, _, _)
LayoutLoop(ss, indexed, i, assigned, lay) ==
    IF i >= Len(indexed) THEN lay
    ELSE LET oi == At(indexed, i) IN
         IF oi \in assigned THEN LayoutLoop(ss, indexed, i + 1, assigned, lay)
         ELSE LET g == ExpandGroup(ss, indexed, <<oi>>, assigned \cup {oi})
                  sortedGroup == SortByStart(ss, g.group)
                  columns == AssignColumns(ss, sortedGroup, <<>>)
                  gl == GroupLayouts(columns)
              IN  LayoutLoop(ss, indexed, i + 1, g.assigned,
                             [k \in DOMAIN lay \cup DOMAIN gl |->
                                 IF k \in DOMAIN gl THEN gl[k] ELSE lay[k]])

\* the groups in the order the outer loop builds them, each in the order
\* its members are given a column (the group array after group.sort)
RECURSIVE PlacementLoop(_, _, _, _, _)
PlacementLoop(ss, indexed, i, assigned, placed) ==
    IF i >= Len(indexed) THEN placed
    ELSE LET oi == At(indexed, i) IN
         IF oi \in assigned THEN PlacementLoop(ss, indexed, i + 1, assigned, placed)
         ELSE LET g == ExpandGroup(ss, indexed, <<oi>>, assigned \cup {oi})
              IN  PlacementLoop(ss, indexed, i + 1, g.assigned,
                                Append(placed, SortByStart(ss, g.group)))

PlacementOrder(ss) ==
    IF Len(ss) = 0 THEN <<>>
    ELSE PlacementLoop(ss, Indexed(ss), 0, {}, <<>>)

EmptyMap == [k \in {} |-> 0]

calculateOverlapLayout(ss) ==
    IF Len(ss) = 0 THEN EmptyMap
    ELSE LayoutLoop(ss, Indexed(ss), 0, {}, EmptyMap)

\* The argument array after the call: the function sorts the copy made by
\* seances.map(...) and the group array, never the argument itself.
InputSortedInPlace(ss) == [k \in 1 .. Len(ss) |-> At(ss, Indexed(ss)[k])]

SeancesAfterCall(ss) == ss

(***************************************************************************)
(* favorites.ts                                                            *)
(*                                                                         *)
(* A string is a sequence of tokens: the token "|" is the pipe character,  *)
(* every other token is a non-empty run of characters without a pipe, and  *)
(* no two such runs are adjacent, so that equal strings are equal          *)
(* sequences.  The empty string is <<>>.                                   *)
(***************************************************************************)
MaxProgramme == 2

MaxCalls == 2

Pipe == "|"

EmptyString == <<>>

\* the value of an optional field that is absent
Undefined == <<"<undefined>">>

Truthy(str) == str # Undefined /\ str # EmptyString

\* String.prototype.toLowerCase on the tokens of the model
LowerToken(tok) ==
    CASE tok = "L'ile aux esclaves" -> "l'ile aux esclaves"
      [] tok = "Film B" -> "film b"
      [] OTHER -> tok

toLowerCase(str) == [k \in 1 .. Len(str) |-> LowerToken(str[k])]

includes(str, tok) == \E k \in 1 .. Len(str) : str[k] = tok

\* String.prototype.split('|')
RECURSIVE split(_)
split(str) ==
    IF ~includes(str, Pipe) THEN <<str>>
    ELSE LET k == CHOOSE k \in 1 .. Len(str) :
                      str[k] = Pipe /\ \A m \in 1 .. (k - 1) : str[m] # Pipe
         IN  <<SubSeq(str, 1, k - 1)>> \o split(SubSeq(str, k + 1, Len(str)))

\* the template `${a}|${b}|${c}|${d}`
CompositeKey(a, b, c, d) == a \o <<Pipe>> \o b \o <<Pipe>> \o c \o <<Pipe>> \o d

isIndexedDBAvailable_Always == TRUE

isIndexedDBAvailable == env = "browser"

isMigrationComplete_StrictTrue == IF env = "server" THEN TRUE ELSE FALSE

isMigrationComplete == IF env = "server" THEN TRUE ELSE migrationKey = "true"

\* localStorage[MIGRATION_KEY] after markMigrationComplete()
markMigrationComplete_Noop == migrationKey

markMigrationComplete == IF env # "server" THEN "true" ELSE migrationKey

isOldFormat(id) == includes(id, Pipe)

Null == [isNull |-> TRUE]

parseOldFavorite(id) ==
    LET parts == split(id) IN
    IF Len(parts) # 4 THEN Null
    ELSE [isNull |-> FALSE, date |-> parts[1], heureDebut |-> parts[2],
          lieu |-> parts[3], titre |-> parts[4]]

\* for (const s of screenings) { ... screeningMap.set(key, s._id_screening) }
RECURSIVE buildScreeningMap(_, _)
buildScreeningMap(screenings, map) ==
    IF screenings = <<>> THEN map
    ELSE LET s == Head(screenings) IN
         IF ~Truthy(s._id_screening) THEN buildScreeningMap(Tail(screenings), map)
         ELSE LET key == CompositeKey(s.date, s.heureDebut, s.lieu,
                            toLowerCase(IF Truthy(s.titre) THEN s.titre ELSE EmptyString))
              IN  buildScreeningMap(Tail(screenings), (key :> s._id_screening) @@ map)

lookupNewId_Fuzzy(screeningMap, oldFav) ==
    LET parsed == parseOldFavorite(oldFav.filmId) IN
    IF parsed.isNull THEN Undefined
    ELSE LET lookupKey == CompositeKey(parsed.date, parsed.heureDebut, parsed.lieu, parsed.titre)
         IN  IF lookupKey \in DOMAIN screeningMap THEN screeningMap[lookupKey]
             ELSE IF DOMAIN screeningMap # {}
                  THEN screeningMap[CHOOSE key \in DOMAIN screeningMap : TRUE]
                  ELSE Undefined

\* the identifier the loop body finds for oldFav, Undefined when it finds none
lookupNewId(screeningMap, oldFav) ==
    LET parsed == parseOldFavorite(oldFav.filmId) IN
    IF parsed.isNull THEN Undefined
    ELSE LET lookupKey == CompositeKey(parsed.date, parsed.heureDebut, parsed.lieu, parsed.titre)
         IN  IF lookupKey \in DOMAIN screeningMap THEN screeningMap[lookupKey] ELSE Undefined

RECURSIVE nextHit_StopAtMalformed(_, _, _)
nextHit_StopAtMalformed(oldFavorites, screeningMap, i) ==
    IF i >= Len(oldFavorites) THEN i
    ELSE IF parseOldFavorite(At(oldFavorites, i).filmId).isNull THEN Len(oldFavorites)
         ELSE IF Truthy(lookupNewId(screeningMap, At(oldFavorites, i))) THEN i
              ELSE nextHit_StopAtMalformed(oldFavorites, screeningMap, i + 1)

\* the position, from i on, of the next old favorite the loop awaits a put for
RECURSIVE nextHit(_, _, _)
nextHit(oldFavorites, screeningMap, i) ==
    IF i >= Len(oldFavorites) THEN i
    ELSE IF Truthy(lookupNewId(screeningMap, At(oldFavorites, i))) THEN i
         ELSE nextHit(oldFavorites, screeningMap, i + 1)

(***************************************************************************)
(* The identifiers and screenings of the model                             *)
(***************************************************************************)
Date1 == <<"Samedi 24 janvier 2026">>

Royal1 == <<"Royal 1">>

NewId1 == <<"1523">>

NewId2 == <<"1524">>

OldId1 == CompositeKey(Date1, <<"09:30">>, Royal1, <<"l'ile aux esclaves">>)

OldId2 == CompositeKey(Date1, <<"11:00">>, Royal1, <<"film b">>)

\* a composite identifier whose title contains a pipe: five fields
OldId5 == CompositeKey(Date1, <<"08:00">>, Royal1, <<"one", Pipe, "two">>)

\* all identifiers, in the ascending key order of the object store
KeyOrder == <<NewId1, NewId2, OldId5, OldId1, OldId2>>

FavoriteIds == SeqToSet(KeyOrder)

Timestamps == {1000, 2000}

Screening1 == [date |-> Date1, heureDebut |-> <<"09:30">>, lieu |-> Royal1,
               titre |-> <<"L'ile aux esclaves">>, _id_screening |-> NewId1]

Screening2 == [date |-> Date1, heureDebut |-> <<"11:00">>, lieu |-> Royal1,
               titre |-> <<"Film B">>, _id_screening |-> NewId2]

\* the first screening without an API identifier
Screening1NoId == [date |-> Date1, heureDebut |-> <<"09:30">>, lieu |-> Royal1,
                   titre |-> <<"L'ile aux esclaves">>, _id_screening |-> Undefined]

ScreeningValues == {Screening1, Screening2, Screening1NoId}

Programmes == UNION {[1 .. n -> ScreeningValues] : n \in 0 .. MaxProgramme}

\* DayNavigator's getScreeningId(date, seance): the API identifier when the
\* screening has one, the composite identifier otherwise
getScreeningId(date, seance) ==
    IF Truthy(seance._id_screening) THEN seance._id_screening
    ELSE CompositeKey(date, seance.heureDebut, seance.lieu,
                      IF Truthy(seance.titre) /\ Truthy(toLowerCase(seance.titre))
                      THEN toLowerCase(seance.titre) ELSE EmptyString)

\* db.getAll('favorites'): the records in ascending key order
getAll(st) ==
    LET keys == SelectSeq(KeyOrder, LAMBDA id : id \in DOMAIN st)
    IN  [k \in 1 .. Len(keys) |-> [filmId |-> keys[k], addedAt |-> st[keys[k]]]]

dbPut_KeepExisting(st, filmId, addedAt) == st @@ (filmId :> addedAt)

\* db.put('favorites', { filmId, addedAt })
dbPut(st, filmId, addedAt) == (filmId :> addedAt) @@ st

dbDelete_Noop(st, filmId) == st

\* db.delete('favorites', filmId)
dbDelete(st, filmId) == [id \in (DOMAIN st) \ {filmId} |-> st[id]]

IdleRun == [pc |-> "idle", oldFavorites |-> <<>>, screeningMap |-> EmptyMap,
            i |-> 0, migratedCount |-> 0, ret |-> 0,
            flagAtCall |-> FALSE, storeCalls |-> 0]

\* the run after `return value`
Returned(run, value) ==
    [IdleRun EXCEPT !.pc = "done", !.ret = value,
                    !.flagAtCall = run.flagAtCall, !.storeCalls = run.storeCalls]

NoLayoutState ==
    /\ seances = <<>>
    /\ input0 = <<>>
    /\ layouts = EmptyMap
    /\ prevLayouts = EmptyMap
    /\ runs = 0

Envs == {"server", "noIDB", "browser"}

\* the two calls of toggleFavorite, and the two runs of the startup effect
Toggles == {1, 2}

Effects == {1, 2}

IdleToggle == [pc |-> "idle", filmId |-> <<>>, currentStatus |-> FALSE, ret |-> FALSE,
               memberAtCall |-> FALSE, overlapped |-> FALSE]

\* no toggleFavorite call, no startup effect
NoSession ==
    /\ tog = [t \in Toggles |-> IdleToggle]
    /\ mig2 = IdleRun
    /\ store0 = EmptyMap
    /\ startup = [e \in Effects |-> "none"]
    /\ uiFavorites = {}

\* a device on which no version of the app has stored anything yet
FreshDevice ==
    /\ store = EmptyMap
    /\ migrationKey = "null"
    /\ env \in Envs
    /\ dbOpen = FALSE
    /\ programme \in Programmes
    /\ mig = IdleRun
    /\ calls = 0
    /\ callStore = EmptyMap
    /\ favSet = {}
    /\ NoSession
    /\ NoLayoutState

\* any caller: store calls may be issued while a migration is in progress
InitFav == FreshDevice /\ awaited = FALSE

\* loadAndMigrateFavorites: the migration is awaited before the store is used
InitMig == FreshDevice /\ awaited = TRUE

\* the store the run is compared with when it returns
CallStoreAfter(run) == IF awaited /\ run.pc # "done" THEN callStore ELSE EmptyMap

\* migrateFavorites(screenings) up to its first await
MigrateCall ==
    /\ mig.pc \in {"idle", "done"}
    /\ calls < MaxCalls
    /\ calls' = calls + 1
    /\ LET run == [IdleRun EXCEPT !.flagAtCall = (migrationKey = "true")] IN
       IF ~isIndexedDBAvailable \/ isMigrationComplete
       THEN /\ mig' = Returned(run, 0)
            /\ callStore' = EmptyMap
            /\ UNCHANGED dbOpen
       ELSE /\ mig' = [run EXCEPT !.pc = "getAll"]
            /\ callStore' = IF awaited THEN store ELSE EmptyMap
            /\ dbOpen' = TRUE
    /\ UNCHANGED <<store, migrationKey, env, programme, awaited, favSet>>
    /\ UNCHANGED layoutVars
    /\ UNCHANGED sessionVars

ResumeLoop_MarkIfAllMatched(run, from, count) ==
    LET k == nextHit(run.oldFavorites, run.screeningMap, from) IN
    IF k < Len(run.oldFavorites)
    THEN /\ mig' = [run EXCEPT !.pc = "put", !.i = k, !.migratedCount = count]
         /\ UNCHANGED migrationKey
    ELSE /\ mig' = Returned(run, count)
         /\ migrationKey' = IF count = Len(run.oldFavorites)
                            THEN markMigrationComplete ELSE migrationKey

ResumeLoop_CountsSkipped(run, from, count) ==
    LET k == nextHit(run.oldFavorites, run.screeningMap, from) IN
    IF k < Len(run.oldFavorites)
    THEN /\ mig' = [run EXCEPT !.pc = "put", !.i = k, !.migratedCount = count + (k - from)]
         /\ UNCHANGED migrationKey
    ELSE /\ mig' = Returned(run, count + (k - from))
         /\ migrationKey' = markMigrationComplete

\* the loop from position `from` on, up to the next await or the return
ResumeLoop(run, from, count) ==
    LET k == nextHit(run.oldFavorites, run.screeningMap, from) IN
    IF k < Len(run.oldFavorites)
    THEN /\ mig' = [run EXCEPT !.pc = "put", !.i = k, !.migratedCount = count]
         /\ UNCHANGED migrationKey
    ELSE /\ mig' = Returned(run, count)
         /\ migrationKey' = markMigrationComplete

\* await db.getAll('favorites') and what follows it
MigrateGetAll ==
    /\ mig.pc = "getAll"
    /\ LET allFavorites == getAll(store)
           oldFavorites == SelectSeq(allFavorites, LAMBDA f : isOldFormat(f.filmId))
           run == [mig EXCEPT !.storeCalls = @ + 1]
       IN  IF Len(oldFavorites) = 0
           THEN /\ mig' = Returned(run, 0)
                /\ migrationKey' = markMigrationComplete
           ELSE ResumeLoop([run EXCEPT !.oldFavorites = oldFavorites,
                                       !.screeningMap = buildScreeningMap(programme, EmptyMap)],
                           0, 0)
    /\ callStore' = CallStoreAfter(mig')
    /\ UNCHANGED <<store, env, dbOpen, programme, calls, awaited, favSet>>
    /\ UNCHANGED layoutVars
    /\ UNCHANGED sessionVars

MigratePut_DeletesFirst ==
    /\ mig.pc = "put"
    /\ store' = dbDelete(store, At(mig.oldFavorites, mig.i).filmId)
    /\ favSet' = favSet \ {At(mig.oldFavorites, mig.i).filmId}
    /\ mig' = [mig EXCEPT !.pc = "delete", !.storeCalls = @ + 1]
    /\ UNCHANGED <<migrationKey, env, dbOpen, programme, calls, awaited, callStore>>
    /\ UNCHANGED layoutVars
    /\ UNCHANGED sessionVars

MigratePut_StampsNow ==
    /\ mig.pc = "put"
    /\ LET oldFav == At(mig.oldFavorites, mig.i)
           newId == lookupNewId(mig.screeningMap, oldFav)
       IN  /\ \E addedAt \in Timestamps : store' = dbPut(store, newId, addedAt)
           /\ favSet' = favSet \cup {newId}
    /\ mig' = [mig EXCEPT !.pc = "delete", !.storeCalls = @ + 1]
    /\ UNCHANGED <<migrationKey, env, dbOpen, programme, calls, awaited, callStore>>
    /\ UNCHANGED layoutVars
    /\ UNCHANGED sessionVars

\* await db.put('favorites', { filmId: newId, addedAt: oldFav.addedAt })
MigratePut ==
    /\ mig.pc = "put"
    /\ LET oldFav == At(mig.oldFavorites, mig.i)
           newId == lookupNewId(mig.screeningMap, oldFav)
       IN  /\ store' = dbPut(store, newId, oldFav.addedAt)
           /\ favSet' = favSet \cup {newId}
    /\ mig' = [mig EXCEPT !.pc = "delete", !.storeCalls = @ + 1]
    /\ UNCHANGED <<migrationKey, env, dbOpen, programme, calls, awaited, callStore>>
    /\ UNCHANGED layoutVars
    /\ UNCHANGED sessionVars

\* await db.delete('favorites', oldFav.filmId); migratedCount++; next turn
MigrateDelete ==
    /\ mig.pc = "delete"
    /\ store' = dbDelete(store, At(mig.oldFavorites, mig.i).filmId)
    /\ favSet' = favSet \ {At(mig.oldFavorites, mig.i).filmId}
    /\ ResumeLoop([mig EXCEPT !.storeCalls = @ + 1], mig.i + 1, mig.migratedCount + 1)
    /\ callStore' = CallStoreAfter(mig')
    /\ UNCHANGED <<env, dbOpen, programme, calls, awaited>>
    /\ UNCHANGED layoutVars
    /\ UNCHANGED sessionVars

\* an awaited migration keeps every other store call waiting until it returns
StoreCallAllowed == ~awaited \/ mig.pc \in {"idle", "done"}

\* addFavorite(filmId), Date.now() being addedAt
addFavorite(filmId, addedAt) ==
    /\ StoreCallAllowed
    /\ IF ~isIndexedDBAvailable
       THEN UNCHANGED <<store, dbOpen, favSet>>
       ELSE /\ store' = dbPut(store, filmId, addedAt)
            /\ favSet' = favSet \cup {filmId}
            /\ dbOpen' = TRUE
    /\ UNCHANGED <<migrationKey, env, programme, mig, calls, awaited, callStore>>
    /\ UNCHANGED layoutVars
    /\ UNCHANGED sessionVars

removeFavorite(filmId) ==
    /\ StoreCallAllowed
    /\ IF ~isIndexedDBAvailable
       THEN UNCHANGED <<store, dbOpen, favSet>>
       ELSE /\ store' = dbDelete(store, filmId)
            /\ favSet' = favSet \ {filmId}
            /\ dbOpen' = TRUE
    /\ UNCHANGED <<migrationKey, env, programme, mig, calls, awaited, callStore>>
    /\ UNCHANGED layoutVars
    /\ UNCHANGED sessionVars

clearAllFavorites_ResetsFlag ==
    /\ StoreCallAllowed
    /\ IF ~isIndexedDBAvailable
       THEN UNCHANGED <<store, dbOpen, favSet, migrationKey>>
       ELSE /\ store' = EmptyMap
            /\ favSet' = {}
            /\ dbOpen' = TRUE
            /\ migrationKey' = "null"
    /\ UNCHANGED <<env, programme, mig, calls, awaited, callStore>>
    /\ UNCHANGED layoutVars
    /\ UNCHANGED sessionVars

clearAllFavorites ==
    /\ StoreCallAllowed
    /\ IF ~isIndexedDBAvailable
       THEN UNCHANGED <<store, dbOpen, favSet>>
       ELSE /\ store' = EmptyMap
            /\ favSet' = {}
            /\ dbOpen' = TRUE
    /\ UNCHANGED <<migrationKey, env, programme, mig, calls, awaited, callStore>>
    /\ UNCHANGED layoutVars
    /\ UNCHANGED sessionVars

\* getFavorites(): the identifiers in the order db.getAll returns the records
getFavorites ==
    IF ~isIndexedDBAvailable THEN <<>>
    ELSE LET all == getAll(store) IN [k \in 1 .. Len(all) |-> all[k].filmId]

\* isFavorite(filmId): !!(await db.get('favorites', filmId))
isFavorite(filmId) ==
    IF ~isIndexedDBAvailable THEN FALSE
    ELSE filmId \in DOMAIN store

AddFavorite == \E filmId \in FavoriteIds : \E addedAt \in Timestamps : addFavorite(filmId, addedAt)

RemoveFavorite == \E filmId \in FavoriteIds : removeFavorite(filmId)

\* the page is loaded again: the module state (dbPromise, a run in progress)
\* is gone, the object store and localStorage stay, and IndexedDB may or may
\* not be available this time
Reload ==
    /\ \E e \in Envs : env' = e
    /\ dbOpen' = FALSE
    /\ mig' = IdleRun
    /\ callStore' = EmptyMap
    /\ UNCHANGED <<store, migrationKey, programme, calls, awaited, favSet>>
    /\ UNCHANGED layoutVars
    /\ UNCHANGED sessionVars

NextFav ==
    \/ MigrateCall
    \/ MigrateGetAll
    \/ MigratePut
    \/ MigrateDelete
    \/ AddFavorite
    \/ RemoveFavorite
    \/ clearAllFavorites

\* the same steps, and page loads between them
NextMig == NextFav \/ Reload

SpecFav == InitFav /\ [][NextFav]_vars

SpecMig == InitMig /\ [][NextMig]_vars

(***************************************************************************)
(* toggleFavorite as handleToggleFavorite calls it: two calls, each of     *)
(* three steps (the call, the db.get of isFavorite, the db.delete or       *)
(* db.put), in any interleaving                                            *)
(***************************************************************************)
ToggleIds == {NewId1, NewId2}

ToggleStores == UNION {[ids -> {1000}] : ids \in SUBSET ToggleIds}

\* a click needs a window: IndexedDB is available in it or not
InitToggle ==
    /\ env \in {"noIDB", "browser"}
    /\ store \in (IF env = "browser" THEN ToggleStores ELSE {EmptyMap})
    /\ store0 = store
    /\ favSet = DOMAIN store
    /\ migrationKey = "null"
    /\ dbOpen = FALSE
    /\ programme = <<>>
    /\ mig = IdleRun
    /\ mig2 = IdleRun
    /\ calls = 0
    /\ awaited = FALSE
    /\ callStore = EmptyMap
    /\ tog = [t \in Toggles |-> IdleToggle]
    /\ startup = [e \in Effects |-> "none"]
    /\ uiFavorites = DOMAIN store
    /\ NoLayoutState

InProgress(t) == tog[t].pc \in {"get", "write"}

\* handleToggleFavorite(screeningId): toggleFavorite is called
ToggleCall(t) ==
    /\ tog[t].pc = "idle"
    /\ \E filmId \in ToggleIds :
           tog' = [u \in Toggles |->
                      IF u = t
                      THEN [IdleToggle EXCEPT !.pc = "get", !.filmId = filmId,
                                              !.memberAtCall = (filmId \in DOMAIN store),
                                              !.overlapped = \E v \in Toggles \ {t} : InProgress(v)]
                      ELSE [tog[u] EXCEPT !.overlapped = @ \/ InProgress(u)]]
    /\ UNCHANGED <<store, favSet, dbOpen, uiFavorites>>

\* const currentStatus = await isFavorite(filmId)
ToggleGet(t) ==
    /\ tog[t].pc = "get"
    /\ tog' = [tog EXCEPT ![t].pc = "write", ![t].currentStatus = isFavorite(tog[t].filmId)]
    /\ dbOpen' = (dbOpen \/ isIndexedDBAvailable)
    /\ UNCHANGED <<store, favSet, uiFavorites>>

\* await removeFavorite(filmId); return false / await addFavorite(filmId);
\* return true, and the setFavorites that follows in handleToggleFavorite
ToggleWrite(t) ==
    /\ tog[t].pc = "write"
    /\ LET filmId == tog[t].filmId IN
       IF tog[t].currentStatus
       THEN /\ store' = IF isIndexedDBAvailable THEN dbDelete(store, filmId) ELSE store
            /\ favSet' = IF isIndexedDBAvailable THEN favSet \ {filmId} ELSE favSet
            /\ tog' = [tog EXCEPT ![t].pc = "done", ![t].ret = FALSE]
            /\ uiFavorites' = uiFavorites \ {filmId}
       ELSE /\ \E addedAt \in Timestamps :
                   store' = IF isIndexedDBAvailable THEN dbPut(store, filmId, addedAt) ELSE store
            /\ favSet' = IF isIndexedDBAvailable THEN favSet \cup {filmId} ELSE favSet
            /\ tog' = [tog EXCEPT ![t].pc = "done", ![t].ret = TRUE]
            /\ uiFavorites' = uiFavorites \cup {filmId}
    /\ dbOpen' = (dbOpen \/ isIndexedDBAvailable)

ToggleFrame ==
    /\ UNCHANGED <<migrationKey, env, programme, mig, calls, awaited, callStore>>
    /\ UNCHANGED <<mig2, store0, startup>>
    /\ UNCHANGED layoutVars

ToggleCalled == (\E t \in Toggles : ToggleCall(t)) /\ ToggleFrame

ToggleRead == (\E t \in Toggles : ToggleGet(t)) /\ ToggleFrame

ToggleWritten == (\E t \in Toggles : ToggleWrite(t)) /\ ToggleFrame

NextToggle == ToggleCalled \/ ToggleRead \/ ToggleWritten

SpecToggle == InitToggle /\ [][NextToggle]_vars

(***************************************************************************)
(* DayNavigator's startup effect, loadAndMigrateFavorites.  The effect may *)
(* run a second time while its first run is still awaiting; run e of the   *)
(* effect has its own call of migrateFavorites (mig for the first, mig2    *)
(* for the second).  The page may be closed and opened again at any point. *)
(***************************************************************************)
\* the favorites stored before the session: old-format ones added at 1000,
\* new-format ones at 2000
StartupStores ==
    UNION {[ids -> {1000}] : ids \in SUBSET {OldId1, OldId2, OldId5}}

StartupStore(olds, news) ==
    [id \in DOMAIN olds \cup news |-> IF id \in news THEN 2000 ELSE olds[id]]

InitStartup ==
    /\ env \in {"noIDB", "browser"}
    /\ store \in (IF env = "browser"
                  THEN {StartupStore(olds, news) :
                           olds \in StartupStores, news \in SUBSET {NewId1, NewId2}}
                  ELSE {EmptyMap})
    /\ store0 = store
    /\ favSet = DOMAIN store
    /\ migrationKey = "null"
    /\ dbOpen = FALSE
    /\ programme \in Programmes
    /\ mig = IdleRun
    /\ mig2 = IdleRun
    /\ calls = 0
    /\ awaited = FALSE
    /\ callStore = EmptyMap
    /\ tog = [t \in Toggles |-> IdleToggle]
    /\ startup = [e \in Effects |-> "none"]
    /\ uiFavorites = {}
    /\ NoLayoutState

Run(e) == IF e = 1 THEN mig ELSE mig2

SetRun(e, run) ==
    IF e = 1 THEN mig' = run /\ UNCHANGED mig2 ELSE mig2' = run /\ UNCHANGED mig

\* migrateFavorites up to its first await, as a value
StartRun ==
    LET run == [IdleRun EXCEPT !.flagAtCall = (migrationKey = "true")] IN
    IF ~isIndexedDBAvailable \/ isMigrationComplete
    THEN Returned(run, 0)
    ELSE [run EXCEPT !.pc = "getAll"]

\* the loop from position `from` on, up to the next await or the return:
\* the run afterwards, and whether markMigrationComplete was called
AfterLoop(run, from, count) ==
    LET k == nextHit(run.oldFavorites, run.screeningMap, from) IN
    IF k < Len(run.oldFavorites)
    THEN [run |-> [run EXCEPT !.pc = "put", !.i = k, !.migratedCount = count],
          marked |-> FALSE]
    ELSE [run |-> Returned(run, count), marked |-> TRUE]

\* what follows await db.getAll('favorites')
AfterGetAll(run) ==
    LET allFavorites == getAll(store)
        oldFavorites == SelectSeq(allFavorites, LAMBDA f : isOldFormat(f.filmId))
        counted == [run EXCEPT !.storeCalls = @ + 1]
    IN  IF Len(oldFavorites) = 0
        THEN [run |-> Returned(counted, 0), marked |-> TRUE]
        ELSE AfterLoop([counted EXCEPT !.oldFavorites = oldFavorites,
                                       !.screeningMap = buildScreeningMap(programme, EmptyMap)],
                       0, 0)

StartupFrame ==
    /\ UNCHANGED <<env, programme, awaited, callStore, tog, store0>>
    /\ UNCHANGED layoutVars

\* if (!isMigrationComplete()) is false: the effect goes on to getFavorites
EffectSkipsMigration(e) ==
    /\ startup[e] = "none"
    /\ e = 2 => startup[1] # "none"
    /\ isMigrationComplete
    /\ startup' = [startup EXCEPT ![e] = "reading"]
    /\ UNCHANGED <<store, favSet, migrationKey, dbOpen, mig, mig2, calls, uiFavorites>>
    /\ StartupFrame

\* if (!isMigrationComplete()) { ...; await migrateFavorites(allScreenings) }
EffectMigrates(e) ==
    /\ startup[e] = "none"
    /\ e = 2 => startup[1] # "none"
    /\ ~isMigrationComplete
    /\ calls < MaxCalls
    /\ calls' = calls + 1
    /\ SetRun(e, StartRun)
    /\ dbOpen' = (dbOpen \/ StartRun.pc = "getAll")
    /\ startup' = [startup EXCEPT ![e] = "migrating"]
    /\ UNCHANGED <<store, favSet, migrationKey, uiFavorites>>
    /\ StartupFrame

RunGetAll(e) ==
    /\ startup[e] = "migrating"
    /\ Run(e).pc = "getAll"
    /\ LET after == AfterGetAll(Run(e)) IN
           /\ SetRun(e, after.run)
           /\ migrationKey' = IF after.marked THEN markMigrationComplete ELSE migrationKey
    /\ UNCHANGED <<store, favSet, dbOpen, calls, startup, uiFavorites>>
    /\ StartupFrame

RunPut(e) ==
    /\ startup[e] = "migrating"
    /\ Run(e).pc = "put"
    /\ LET oldFav == At(Run(e).oldFavorites, Run(e).i)
           newId == lookupNewId(Run(e).screeningMap, oldFav)
       IN  /\ store' = dbPut(store, newId, oldFav.addedAt)
           /\ favSet' = favSet \cup {newId}
    /\ SetRun(e, [Run(e) EXCEPT !.pc = "delete", !.storeCalls = @ + 1])
    /\ UNCHANGED <<migrationKey, dbOpen, calls, startup, uiFavorites>>
    /\ StartupFrame

RunDelete(e) ==
    /\ startup[e] = "migrating"
    /\ Run(e).pc = "delete"
    /\ store' = dbDelete(store, At(Run(e).oldFavorites, Run(e).i).filmId)
    /\ favSet' = favSet \ {At(Run(e).oldFavorites, Run(e).i).filmId}
    /\ LET after == AfterLoop([Run(e) EXCEPT !.storeCalls = @ + 1],
                              Run(e).i + 1, Run(e).migratedCount + 1) IN
           /\ SetRun(e, after.run)
           /\ migrationKey' = IF after.marked THEN markMigrationComplete ELSE migrationKey
    /\ UNCHANGED <<dbOpen, calls, startup, uiFavorites>>
    /\ StartupFrame

EffectRead_NoAwait(e) ==
    /\ startup[e] \in {"reading", "migrating"}
    /\ uiFavorites' = SeqToSet(getFavorites)
    /\ startup' = [startup EXCEPT ![e] = "loaded"]
    /\ dbOpen' = (dbOpen \/ isIndexedDBAvailable)
    /\ UNCHANGED <<store, favSet, migrationKey, mig, mig2, calls>>
    /\ StartupFrame

\* const ids = await getFavorites(); setFavorites(new Set(ids)), once the
\* await of migrateFavorites, if there was one, has resolved
EffectRead(e) ==
    /\ \/ startup[e] = "reading"
       \/ startup[e] = "migrating" /\ Run(e).pc = "done"
    /\ uiFavorites' = SeqToSet(getFavorites)
    /\ startup' = [startup EXCEPT ![e] = "loaded"]
    /\ dbOpen' = (dbOpen \/ isIndexedDBAvailable)
    /\ UNCHANGED <<store, favSet, migrationKey, mig, mig2, calls>>
    /\ StartupFrame

\* the page is closed: every run of the effect is abandoned where it is; the
\* object store and localStorage stay
Abandon ==
    /\ startup[1] # "none"
    /\ startup' = [e \in Effects |-> "none"]
    /\ mig' = IdleRun
    /\ mig2' = IdleRun
    /\ uiFavorites' = {}
    /\ dbOpen' = FALSE
    /\ UNCHANGED <<store, favSet, migrationKey, calls>>
    /\ StartupFrame

SkipsMigration == \E e \in Effects : EffectSkipsMigration(e)

Migrates == \E e \in Effects : EffectMigrates(e)

ReadsStore == \E e \in Effects : RunGetAll(e)

Puts == \E e \in Effects : RunPut(e)

Deletes == \E e \in Effects : RunDelete(e)

LoadsFavorites == \E e \in Effects : EffectRead(e)

NextStartup ==
    \/ SkipsMigration
    \/ Migrates
    \/ ReadsStore
    \/ Puts
    \/ Deletes
    \/ LoadsFavorites
    \/ Abandon

SpecStartup == InitStartup /\ [][NextStartup]_vars

(***************************************************************************)
(* CalendarView: one venue's list is laid out on every render              *)
(***************************************************************************)
SeanceLists == UNION {[1 .. n -> SeanceValues] : n \in 0 .. MaxLen}

NoFavState ==
    /\ store = EmptyMap
    /\ migrationKey = "null"
    /\ env = "browser"
    /\ dbOpen = FALSE
    /\ programme = <<>>
    /\ mig = IdleRun
    /\ calls = 0
    /\ awaited = FALSE
    /\ callStore = EmptyMap
    /\ favSet = {}
    /\ NoSession

InitLayout ==
    /\ seances \in SeanceLists
    /\ input0 = seances
    /\ layouts = EmptyMap
    /\ prevLayouts = EmptyMap
    /\ runs = 0
    /\ NoFavState

Render ==
    /\ layouts' = calculateOverlapLayout(seances)
    /\ prevLayouts' = layouts
    /\ seances' = SeancesAfterCall(seances)
    /\ runs' = IF runs < 2 THEN runs + 1 ELSE runs
    /\ UNCHANGED input0
    /\ UNCHANGED favVars
    /\ UNCHANGED sessionVars

NextLayout == Render

SpecLayout == InitLayout /\ [][NextLayout]_vars

(***************************************************************************)
(* Reference notions used by the layout properties, stated on minutes      *)
(***************************************************************************)
StartMin(e) == e.heureDebut.hh * 60 + e.heureDebut.mm

EndMin(e) == e.heureFin.hh * 60 + e.heureFin.mm

RefOverlap(a, b) == StartMin(a) < EndMin(b) /\ StartMin(b) < EndMin(a)

Proper(e) == StartMin(e) < EndMin(e)

AllProper(ss) == \A i \in Indices(ss) : Proper(At(ss, i))

RECURSIVE Reach(_, _)
Reach(ss, S) ==
    LET N == S \cup {j \in Indices(ss) : \E k \in S : RefOverlap(At(ss, k), At(ss, j))}
    IN  IF N = S THEN S ELSE Reach(ss, N)

\* the connected component of i in the overlap graph
Component(ss, i) == Reach(ss, {i})

\* sweep line: the largest number of members of S active at one instant
MaxActive(ss, S) ==
    LET active(t) == Cardinality({j \in S : StartMin(At(ss, j)) <= t /\ t < EndMin(At(ss, j))})
        tmax == CHOOSE t \in {StartMin(At(ss, j)) : j \in S} :
                    \A u \in {StartMin(At(ss, j)) : j \in S} : active(u) <= active(t)
    IN  active(tmax)

LaidOut == runs >= 1 /\ DOMAIN layouts = Indices(seances)

\* C1 - column validity: two distinct events of the input that overlap
\* (a.start < b.end and b.start < a.end, in minutes) are never assigned the
\* same column.
ColumnValidity ==
    runs >= 1 =>
        \A i, j \in Indices(seances) :
            (i # j /\ RefOverlap(At(seances, i), At(seances, j))) =>
                /\ i \in DOMAIN layouts
                /\ j \in DOMAIN layouts
                /\ layouts[i].column # layouts[j].column

ColumnValidityWitness ==
    /\ LaidOut
    /\ \E i, j, k \in Indices(seances) :
          /\ i # j /\ j # k /\ i # k
          /\ RefOverlap(At(seances, i), At(seances, j))
          /\ RefOverlap(At(seances, j), At(seances, k))
          /\ layouts[i].column = layouts[k].column

\* C2 - minimality: when every event has startTime < endTime, the
\* totalColumns of each event equals the largest number of events of its
\* overlap group that are active at one instant (sweep-line count).
Minimality ==
    (runs >= 1 /\ AllProper(seances)) =>
        \A i \in Indices(seances) :
            /\ i \in DOMAIN layouts
            /\ layouts[i].totalColumns = MaxActive(seances, Component(seances, i))

MinimalityWitness ==
    /\ LaidOut
    /\ AllProper(seances)
    /\ \E i \in Indices(seances) :
          /\ Cardinality(Component(seances, i)) = 3
          /\ layouts[i].totalColumns = 2

\* C3 - totality: the returned map has exactly the input indices 0..n-1 as
\* keys; for the empty input it is the empty map.
Totality ==
    runs >= 1 =>
        /\ DOMAIN layouts = Indices(seances)
        /\ (Len(seances) = 0 => layouts = EmptyMap)

TotalityWitness ==
    /\ runs >= 1
    /\ Len(seances) = 3
    /\ DOMAIN layouts = {0, 1, 2}
    /\ \E i \in Indices(seances) : Cardinality(Component(seances, i)) = 1

\* C4 - every returned layout has column >= 0, totalColumns >= 1 and
\* column < totalColumns.
LayoutRange ==
    runs >= 1 =>
        \A i \in DOMAIN layouts :
            /\ layouts[i].column >= 0
            /\ layouts[i].totalColumns >= 1
            /\ layouts[i].column < layouts[i].totalColumns

LayoutRangeWitness ==
    /\ LaidOut
    /\ \E i, j \in DOMAIN layouts : layouts[i].column = 0 /\ layouts[j].column = 2

\* C5 - groups are the connected components of the overlap relation: events
\* linked by a chain of overlaps have the same totalColumns, and the columns
\* used by a component are exactly 0..totalColumns-1.
GroupsAreComponents ==
    runs >= 1 =>
        \A i \in Indices(seances) :
            /\ i \in DOMAIN layouts
            /\ \A j \in Component(seances, i) :
                  /\ j \in DOMAIN layouts
                  /\ layouts[j].totalColumns = layouts[i].totalColumns
            /\ {layouts[j].column : j \in Component(seances, i) \cap DOMAIN layouts}
                  = 0 .. (layouts[i].totalColumns - 1)

GroupsAreComponentsWitness ==
    /\ LaidOut
    /\ \E i, j \in Indices(seances) :
          /\ j \in Component(seances, i)
          /\ ~RefOverlap(At(seances, i), At(seances, j))
          /\ layouts[i].totalColumns = 2
          /\ layouts[j].totalColumns = 2
    /\ \E i, j \in Indices(seances) : j \notin Component(seances, i)

\* C6 - back-to-back events do not overlap: an event that overlaps no other
\* event of the input (also one that starts exactly when another ends) is
\* alone in its group and gets column 0 of 1.
IsolatedIsFullWidth ==
    runs >= 1 =>
        \A i \in Indices(seances) :
            (\A j \in Indices(seances) \ {i} : ~RefOverlap(At(seances, i), At(seances, j))) =>
                /\ i \in DOMAIN layouts
                /\ layouts[i] = [column |-> 0, totalColumns |-> 1]

IsolatedIsFullWidthWitness ==
    /\ LaidOut
    /\ \E i, j \in Indices(seances) :
          /\ Proper(At(seances, i)) /\ Proper(At(seances, j))
          /\ EndMin(At(seances, i)) = StartMin(At(seances, j))
          /\ layouts[i] = [column |-> 0, totalColumns |-> 1]
          /\ layouts[j] = [column |-> 0, totalColumns |-> 1]

\* C7 - the scenario A[09:00-10:00], B[09:30-10:30], C[10:00-11:00], in any
\* input order, yields A=(0,2), B=(1,2), C=(0,2).
SeanceA == [heureDebut |-> [hh |-> 9, mm |-> 0], heureFin |-> [hh |-> 10, mm |-> 0]]

SeanceB == [heureDebut |-> [hh |-> 9, mm |-> 30], heureFin |-> [hh |-> 10, mm |-> 30]]

SeanceC == [heureDebut |-> [hh |-> 10, mm |-> 0], heureFin |-> [hh |-> 11, mm |-> 0]]

IsScenarioABC == Len(seances) = 3 /\ SeqToSet(seances) = {SeanceA, SeanceB, SeanceC}

ScenarioABC ==
    (runs >= 1 /\ IsScenarioABC) =>
        /\ DOMAIN layouts = {0, 1, 2}
        /\ \A i \in DOMAIN layouts :
              layouts[i] = IF At(seances, i) = SeanceB
                           THEN [column |-> 1, totalColumns |-> 2]
                           ELSE [column |-> 0, totalColumns |-> 2]

ScenarioABCWitness ==
    /\ runs >= 1
    /\ seances = <<SeanceC, SeanceB, SeanceA>>
    /\ layouts[0] = [column |-> 0, totalColumns |-> 2]
    /\ layouts[1] = [column |-> 1, totalColumns |-> 2]

\* C8 (as stated) - an event with startTime >= endTime overlaps no other
\* event, whatever the other events' bounds are, and never shares an overlap
\* group with another event.
Degenerate(e) == StartMin(e) >= EndMin(e)

DegenerateOverlapsNothing ==
    runs >= 1 =>
        \A i \in Indices(seances) :
            Degenerate(At(seances, i)) =>
                /\ \A j \in Indices(seances) \ {i} :
                      ~seancesOverlap(At(seances, i), At(seances, j))
                /\ i \in DOMAIN layouts
                /\ layouts[i].totalColumns = 1

\* b strictly contains both bounds of the degenerate event a
StrictlyInside(a, b) ==
    StartMin(b) < EndMin(a) /\ EndMin(a) <= StartMin(a) /\ StartMin(a) < EndMin(b)

\* C8 (amended) - an event with startTime >= endTime is accepted and laid
\* out; it overlaps exactly the events that strictly contain both of its
\* bounds, hence no other degenerate event and not itself; when no other
\* event strictly contains it, it is alone in its group with (0,1), and
\* otherwise it shares a group of at least two columns with its container.
DegenerateOverlapsContainersOnly ==
    runs >= 1 =>
        \A i \in Indices(seances) :
            Degenerate(At(seances, i)) =>
                /\ i \in DOMAIN layouts
                /\ ~seancesOverlap(At(seances, i), At(seances, i))
                /\ \A j \in Indices(seances) \ {i} :
                      /\ seancesOverlap(At(seances, i), At(seances, j))
                            <=> StrictlyInside(At(seances, i), At(seances, j))
                      /\ seancesOverlap(At(seances, j), At(seances, i))
                            <=> StrictlyInside(At(seances, i), At(seances, j))
                      /\ Degenerate(At(seances, j)) =>
                            ~seancesOverlap(At(seances, i), At(seances, j))
                      /\ StrictlyInside(At(seances, i), At(seances, j)) =>
                            /\ j \in DOMAIN layouts
                            /\ layouts[i].column # layouts[j].column
                            /\ layouts[i].totalColumns = layouts[j].totalColumns
                            /\ layouts[i].totalColumns >= 2
                /\ (\A j \in Indices(seances) \ {i} :
                        ~StrictlyInside(At(seances, i), At(seances, j))) =>
                      layouts[i] = [column |-> 0, totalColumns |-> 1]

DegenerateWitness ==
    /\ LaidOut
    /\ \E i, j, k \in Indices(seances) :
          /\ Degenerate(At(seances, i))
          /\ StrictlyInside(At(seances, i), At(seances, j))
          /\ layouts[i].totalColumns = 2
          /\ Degenerate(At(seances, k))
          /\ StartMin(At(seances, k)) = StartMin(At(seances, j))
          /\ layouts[k] = [column |-> 0, totalColumns |-> 1]

FirstFit ==
    runs >= 1 =>
        \A i \in Indices(seances) :
            (\A k \in Component(seances, i) : Proper(At(seances, k))) =>
                /\ i \in DOMAIN layouts
                /\ \A c \in 0 .. (layouts[i].column - 1) :
                       \E j \in Component(seances, i) \ {i} :
                           /\ j \in DOMAIN layouts
                           /\ layouts[j].column = c
                           /\ RefOverlap(At(seances, i), At(seances, j))
                           /\ StartMin(At(seances, j)) <= StartMin(At(seances, i))

\* three proper events in two columns: the third goes back to column 0,
\* which is free for it, and not to a new column
FirstFitWitness ==
    /\ runs >= 1
    /\ Len(seances) = 3
    /\ AllProper(seances)
    /\ Component(seances, 0) = {0, 1, 2}
    /\ DOMAIN layouts = {0, 1, 2}
    /\ layouts[1].column = 1
    /\ layouts[2].column = 0
    /\ StartMin(At(seances, 2)) > StartMin(At(seances, 1))
    /\ ~RefOverlap(At(seances, 0), At(seances, 2))

\* every group is placed in order of start time, ties in order of input index
PlacedByStartThenIndex ==
    \A g \in 1 .. Len(PlacementOrder(seances)) :
        LET group == PlacementOrder(seances)[g] IN
        \A p, q \in 1 .. Len(group) :
            p < q =>
                \/ StartMin(At(seances, group[p])) < StartMin(At(seances, group[q]))
                \/ /\ StartMin(At(seances, group[p])) = StartMin(At(seances, group[q]))
                   /\ group[p] < group[q]

\* two events of one group that start at the same time, i before j in the input
TiedPairs ==
    {<<i, j>> \in Indices(seances) \X Indices(seances) :
        /\ i < j
        /\ j \in Component(seances, i)
        /\ StartMin(At(seances, i)) = StartMin(At(seances, j))}

\* C23 - tie-breaking: group members are placed in order of start time, ties
\* broken by input order, and of two events of the same group with equal
\* start times the one with the smaller input index receives the smaller
\* column.
TieGivesSmallerColumn ==
    runs >= 1 =>
        /\ PlacedByStartThenIndex
        /\ \A pair \in TiedPairs :
               layouts[pair[1]].column < layouts[pair[2]].column

\* C23, amended - group members are placed in order of start time, ties
\* broken by input order; of two events of the same group with equal start
\* times that both have startTime < endTime, the one with the smaller input
\* index receives the smaller column; when one of the two has
\* startTime >= endTime they may share a column.
TieGivesSmallerColumnIfProper ==
    runs >= 1 =>
        /\ PlacedByStartThenIndex
        /\ \A pair \in TiedPairs :
               (Proper(At(seances, pair[1])) /\ Proper(At(seances, pair[2]))) =>
                   layouts[pair[1]].column < layouts[pair[2]].column

TieGivesSmallerColumnWitness ==
    /\ runs >= 1
    /\ Len(seances) = 3
    /\ AllProper(seances)
    /\ <<1, 2>> \in TiedPairs
    /\ StartMin(At(seances, 0)) > StartMin(At(seances, 1))
    /\ EndMin(At(seances, 1)) > EndMin(At(seances, 2))
    /\ layouts[1].column = 0
    /\ layouts[2].column = 1
    /\ layouts[0].column = 2

(***************************************************************************)
(* Properties of the favorites migration, and the notions they refer to    *)
(***************************************************************************)
\* the step on which a run of migrateFavorites that reached the store returns
MigrationReturns == mig.pc \in {"getAll", "delete"} /\ mig'.pc = "done"

\* the identifier splits into exactly 4 pipe-delimited fields
WellFormed(id) == Len(split(id)) = 4

\* date|heureDebut|lieu|titre as rebuilt from the fields of an old identifier
OldKey(id) == LET parts == split(id) IN CompositeKey(parts[1], parts[2], parts[3], parts[4])

\* the key of a screening of the programme
SnapshotKey(s) ==
    CompositeKey(s.date, s.heureDebut, s.lieu,
                 toLowerCase(IF Truthy(s.titre) THEN s.titre ELSE EmptyString))

\* the identifiers of the screenings that have one and whose key is that of id
Matches(id) ==
    {programme[k]._id_screening :
        k \in {j \in 1 .. Len(programme) :
                  /\ Truthy(programme[j]._id_screening)
                  /\ SnapshotKey(programme[j]) = OldKey(id)}}

\* the old-format identifiers the run found in the store
OldAtCall == {id \in DOMAIN callStore : isOldFormat(id)}

UnmatchedUntouched ==
    [][MigrationReturns =>
          \A id \in OldAtCall : (WellFormed(id) /\ Matches(id) = {}) =>
              /\ id \in DOMAIN store'
              /\ store'[id] = callStore[id]]_vars

UnmatchedUntouchedWitness ==
    /\ mig.pc = "done"
    /\ mig.ret = 1
    /\ Matches(OldId1) = {NewId1}
    /\ Matches(OldId2) = {}
    /\ OldId1 \notin DOMAIN store
    /\ OldId2 \in DOMAIN store
    /\ store[OldId2] = 2000
    /\ migrationKey = "true"

\* C13 - short-circuit with nothing to migrate: when the flag is unset,
\* storage is available and no stored identifier contains '|', the run
\* returns 0 right after db.getAll, sets the migration flag, and has issued
\* no put and no delete: every entry of the store is unchanged.
ShortCircuit ==
    [][(mig.pc = "getAll" /\ mig'.pc \in {"put", "done"} /\ OldAtCall = {}) =>
          /\ mig'.pc = "done"
          /\ mig'.ret = 0
          /\ mig'.storeCalls = 1
          /\ migrationKey' = "true"
          /\ store' = callStore]_vars

ShortCircuitWitness ==
    /\ mig.pc = "done"
    /\ ~mig.flagAtCall
    /\ mig.ret = 0
    /\ mig.storeCalls = 1
    /\ migrationKey = "true"
    /\ DOMAIN store = {NewId1, NewId2}
    /\ Matches(OldId1) = {NewId1}

\* C14 - the flag is set at the end of every run: whenever a run that was
\* called with storage available and the flag unset returns, the flag is set,
\* whether all, some or none of the old-format entries found a match; and a
\* call made once the flag is set goes no further than the flag test, so the
\* unmatched entries are not looked at again.
FlagSetAtEnd ==
    [][/\ MigrationReturns => migrationKey' = "true"
       /\ (migrationKey = "true" /\ calls' = calls + 1) =>
              /\ mig'.pc = "done"
              /\ mig'.oldFavorites = <<>>
              /\ store' = store]_vars

\* none of the two old entries matched, the flag was set all the same, and
\* the next call found it set
FlagSetAtEndWitness ==
    /\ calls = 2
    /\ mig.pc = "done"
    /\ mig.flagAtCall
    /\ mig.ret = 0
    /\ migrationKey = "true"
    /\ env = "browser"
    /\ Matches(OldId1) = {}
    /\ Matches(OldId2) = {}
    /\ DOMAIN store = {OldId1, OldId2}

\* C15 - the migration flag stays absent until the reconciler has run to
\* completion against non-empty schedule data: the flag is never set while
\* the screenings list given to migrateFavorites is empty.
FlagNeedsScreenings == programme = <<>> => migrationKey # "true"

\* a run given an empty screenings list has set the flag and left the old
\* favorite where it was
FlagSetOnEmptyScreenings ==
    /\ programme = <<>>
    /\ mig.pc = "done"
    /\ ~mig.flagAtCall
    /\ mig.storeCalls = 1
    /\ mig.ret = 0
    /\ migrationKey = "true"
    /\ OldId1 \in DOMAIN store

\* C16 - storage unavailable: a call of migrateFavorites made where
\* IndexedDB is not available returns 0 at once, without any call on the
\* store, without opening the database and without setting the flag; a call
\* made where it is available, the flag being still unset, goes on to read
\* the store.
StorageUnavailable ==
    [][/\ (calls' = calls + 1 /\ env # "browser") =>
              /\ mig'.pc = "done"
              /\ mig'.ret = 0
              /\ mig'.storeCalls = 0
              /\ store' = store
              /\ dbOpen' = dbOpen
              /\ migrationKey' = migrationKey
       /\ (calls' = calls + 1 /\ env = "browser" /\ migrationKey # "true") =>
              mig'.pc = "getAll"]_vars

\* the call returned 0 without storage, an old favorite waiting in the store
StorageUnavailableWitness ==
    /\ env = "noIDB"
    /\ calls = 1
    /\ mig.pc = "done"
    /\ mig.ret = 0
    /\ mig.storeCalls = 0
    /\ ~dbOpen
    /\ migrationKey = "null"
    /\ OldId1 \in DOMAIN store
    /\ Matches(OldId1) = {NewId1}

\* the old-format identifiers found that do not split into exactly 4 fields
MalformedAtCall == {id \in OldAtCall : ~WellFormed(id)}

\* C17 - malformed old-format identifiers: when an awaited run that found
\* identifiers containing '|' but not made of exactly 4 fields returns, each
\* of them is still in the store with its addedAt, the number returned counts
\* only the well-formed entries that had a match, every such entry has been
\* removed all the same, and the flag is set.
MalformedSkipped ==
    [][(MigrationReturns /\ MalformedAtCall # {}) =>
          /\ \A id \in MalformedAtCall :
                 id \in DOMAIN store' /\ store'[id] = callStore[id]
          /\ mig'.ret = Cardinality({id \in OldAtCall : WellFormed(id) /\ Matches(id) # {}})
          /\ \A id \in OldAtCall :
                 (WellFormed(id) /\ Matches(id) # {}) => id \notin DOMAIN store'
          /\ migrationKey' = "true"]_vars

MalformedSkippedWitness ==
    /\ mig.pc = "done"
    /\ mig.ret = 1
    /\ mig.storeCalls = 3
    /\ migrationKey = "true"
    /\ ~WellFormed(OldId5)
    /\ OldId5 \in DOMAIN store
    /\ Matches(OldId1) = {NewId1}
    /\ OldId1 \notin DOMAIN store
    /\ NewId1 \in DOMAIN store

\* C18 - flag monotonicity: once the migration flag is set, no step of
\* migrateFavorites, addFavorite, removeFavorite or clearAllFavorites (and so
\* none of toggleFavorite, which changes state only through addFavorite and
\* removeFavorite) unsets it.
FlagMonotone == [][migrationKey = "true" => migrationKey' = "true"]_vars

\* the flag is still set after a second call of migrateFavorites and after an
\* old-format favorite that has a match was added
FlagMonotoneWitness ==
    /\ migrationKey = "true"
    /\ calls = 2
    /\ mig.pc = "done"
    /\ mig.flagAtCall
    /\ OldId1 \in DOMAIN store
    /\ Matches(OldId1) = {NewId1}
    /\ NewId1 \notin DOMAIN store

\* C19 - the favorites store refines a set of identifiers: with storage
\* available, getFavorites returns exactly the identifiers put (by
\* addFavorite) and not deleted (by removeFavorite) or cleared (by
\* clearAllFavorites) since, each exactly once; isFavorite is true exactly for
\* those; adding one of them again, or removing an identifier that is not
\* among them, leaves the set of identifiers as it is.
StoreRefinesSet ==
    env = "browser" =>
        /\ SeqToSet(getFavorites) = favSet
        /\ Len(getFavorites) = Cardinality(favSet)
        /\ \A id \in FavoriteIds : isFavorite(id) <=> id \in favSet
        /\ \A id \in favSet : \A addedAt \in Timestamps :
               DOMAIN dbPut(store, id, addedAt) = favSet
        /\ \A id \in FavoriteIds \ favSet : DOMAIN dbDelete(store, id) = favSet

StoreRefinesSetWitness ==
    /\ env = "browser"
    /\ calls = 0
    /\ getFavorites = <<NewId1, OldId2>>
    /\ store[NewId1] = 2000
    /\ store[OldId2] = 1000
    /\ isFavorite(OldId2)
    /\ ~isFavorite(OldId1)

\* C20 - migrateFavorites returns the count of successful rewrites: the
\* number an awaited run returns is the number of old-format entries it
\* found that are no longer in the store, it is 0 when the store is as the
\* run found it, and a call that returns before reading the store returns 0.
ReturnsRewriteCount ==
    [][/\ MigrationReturns =>
              /\ mig'.ret = Cardinality({id \in OldAtCall : id \notin DOMAIN store'})
              /\ store' = callStore => mig'.ret = 0
       /\ (calls' = calls + 1 /\ mig'.pc = "done") =>
              (mig'.ret = 0 /\ store' = store)]_vars

\* two entries rewritten, the malformed one skipped
ReturnsRewriteCountWitness ==
    /\ mig.pc = "done"
    /\ mig.ret = 2
    /\ mig.storeCalls = 5
    /\ DOMAIN store = {NewId1, NewId2, OldId5}
    /\ store[NewId1] = 1000
    /\ store[NewId2] = 2000

\* C24 - no favorite is lost mid-migration: between any two storage calls
\* of an awaited run, every old-format favorite the run found that has a
\* match is in the store under its old identifier or under the identifier
\* of its screening (or both): the put comes before the delete.
NoFavoriteLost ==
    mig.pc \in {"put", "delete"} =>
        \A id \in OldAtCall :
            (WellFormed(id) /\ Matches(id) # {}) =>
                \/ id \in DOMAIN store
                \/ \E newId \in Matches(id) : newId \in DOMAIN store

\* between the put and the delete of the first of two matched favorites
NoFavoriteLostWitness ==
    /\ mig.pc = "delete"
    /\ mig.i = 0
    /\ Matches(OldId1) = {NewId1}
    /\ Matches(OldId2) = {NewId2}
    /\ OldAtCall = {OldId1, OldId2}
    /\ DOMAIN store = {NewId1, OldId1, OldId2}
    /\ store[NewId1] = store[OldId1]

\* the identifier getScreeningId gave S while it had no _id_screening
OldScreeningId(S) == getScreeningId(S.date, [S EXCEPT !._id_screening = Undefined])

\* a call that returns before its first await
ReturnsAtOnce == calls' = calls + 1 /\ mig'.pc = "done"

\* S is a screening of the programme that has an _id_screening, whose fields
\* contain no '|' and whose composite key no other record of the programme has
Migratable(k) ==
    LET S == programme[k] IN
    /\ Truthy(S._id_screening)
    /\ ~includes(S.date, Pipe)
    /\ ~includes(S.heureDebut, Pipe)
    /\ ~includes(S.lieu, Pipe)
    /\ ~includes(IF Truthy(S.titre) THEN S.titre ELSE EmptyString, Pipe)
    /\ \A j \in 1 .. Len(programme) :
           (programme[j] # S) =>
               (Truthy(programme[j]._id_screening) => SnapshotKey(programme[j]) # SnapshotKey(S))

\* C27 - favorite status survives the identifier change: if a screening S
\* was favorited under its composite identifier, now has an _id_screening,
\* has no '|' in its fields and shares its key with no other record, then
\* after a call of migrateFavorites made where IndexedDB is available the
\* store contains getScreeningId(S).
StatusSurvives ==
    [][((MigrationReturns \/ ReturnsAtOnce) /\ env = "browser") =>
          \A k \in 1 .. Len(programme) :
              (/\ Migratable(k)
               /\ OldScreeningId(programme[k])
                      \in DOMAIN (IF ReturnsAtOnce THEN store ELSE callStore)) =>
                  getScreeningId(programme[k].date, programme[k]) \in DOMAIN store']_vars

\* the call found the flag set and returned: the favorite is still under its
\* composite identifier and getScreeningId(S) is not in the store
StatusLostOnceFlagSet ==
    /\ env = "browser"
    /\ mig.pc = "done"
    /\ mig.flagAtCall
    /\ mig.ret = 0
    /\ Len(programme) = 1
    /\ programme[1] = Screening1
    /\ Migratable(1)
    /\ OldScreeningId(Screening1) = OldId1
    /\ getScreeningId(Date1, Screening1) = NewId1
    /\ OldId1 \in DOMAIN store
    /\ NewId1 \notin DOMAIN store

\* the new-format identifiers the run found in the store
NewAtCall == {id \in DOMAIN callStore : ~isOldFormat(id)}

\* the old-format favorites found whose match is the screening identified by id
RewrittenOnto(id) == {old \in OldAtCall : WellFormed(old) /\ id \in Matches(old)}

ToggleCompletes(t) == tog[t].pc = "write" /\ tog'[t].pc = "done"

\* C21 - toggleFavorite(id), no other call being in progress, removes id if
\* it is a favorite and adds it otherwise, and its result is the new status:
\* it returns true if and only if id is in the store when the call completes.
ToggleReturnsStatus ==
    [][\A t \in Toggles :
          (ToggleCompletes(t) /\ ~tog'[t].overlapped) =>
              /\ tog'[t].filmId \in DOMAIN store' <=> ~tog'[t].memberAtCall
              /\ tog'[t].ret <=> tog'[t].filmId \in DOMAIN store']_vars

\* without IndexedDB the call has returned true and the store holds nothing
ToggleTrueButNotStored ==
    /\ env = "noIDB"
    /\ tog[1].pc = "done"
    /\ tog[1].filmId = NewId1
    /\ tog[1].ret
    /\ ~tog[1].overlapped
    /\ tog[2].pc = "idle"
    /\ ~isFavorite(NewId1)
    /\ NewId1 \notin DOMAIN store
    /\ NewId1 \in uiFavorites

\* both calls of toggleFavorite have completed, they were for the same
\* identifier, and each was started before the other completed
OverlappingTogglesDone ==
    /\ tog[1].pc = "done"
    /\ tog[2].pc = "done"
    /\ tog[1].filmId = tog[2].filmId
    /\ tog[1].overlapped
    /\ tog[2].overlapped

\* C29 - interleaved toggles cancel out: when two toggleFavorite(id) calls
\* on the same id, both started before either completed, have both
\* completed, id is in the store exactly if it was before they started.
TogglesCancel ==
    OverlappingTogglesDone =>
        (tog[1].filmId \in DOMAIN store <=> tog[1].memberAtCall)

\* both calls read "not a favorite", both added: the identifier that was
\* absent is now stored and both calls returned true
TogglesBothAdded ==
    /\ env = "browser"
    /\ OverlappingTogglesDone
    /\ tog[1].filmId = NewId1
    /\ ~tog[1].memberAtCall
    /\ ~tog[2].memberAtCall
    /\ NewId1 \notin DOMAIN store0
    /\ tog[1].ret
    /\ tog[2].ret
    /\ NewId1 \in DOMAIN store

\* the old-format identifiers of st that a run of the migration rewrites
Rewritten(st) ==
    {id \in DOMAIN st : isOldFormat(id) /\ WellFormed(id) /\ Matches(id) # {}}

\* the store one uninterrupted run makes of st: each rewritten identifier is
\* replaced by the identifier of its screening, under its own addedAt
MigratedStore(st) ==
    LET gone == Rewritten(st)
        news == UNION {Matches(id) : id \in gone}
    IN  [id \in (DOMAIN st \ gone) \cup news |->
            IF id \in news
            THEN st[CHOOSE old \in gone : id \in Matches(old)]
            ELSE st[id]]

\* C25 - migration precedes the session's favorites read: a run of the
\* startup effect that called migrateFavorites reads the favorites only once
\* that call has resolved, and the set it loads holds no old-format
\* identifier that the migration rewrites.
MigrationPrecedesRead ==
    [][\A e \in Effects :
          (startup[e] = "migrating" /\ startup'[e] = "loaded") =>
              /\ Run(e).pc = "done"
              /\ uiFavorites' \cap Rewritten(store0) = {}]_vars

MigrationPrecedesReadWitness ==
    /\ startup[1] = "loaded"
    /\ mig.pc = "done"
    /\ ~mig.flagAtCall
    /\ mig.ret = 1
    /\ OldId1 \in Rewritten(store0)
    /\ uiFavorites = DOMAIN store
    /\ NewId1 \in uiFavorites
    /\ OldId1 \notin uiFavorites

\* C26 - interrupted migration converges: when a run was abandoned before
\* the flag was set and a later run, alone, went through the store and
\* returned, the store is the one a single uninterrupted run makes of the
\* store the session found, and the flag is set.
InterruptedConverges ==
    (/\ calls >= 2
     /\ mig2 = IdleRun
     /\ mig.pc = "done"
     /\ mig.storeCalls >= 1) =>
        /\ store = MigratedStore(store0)
        /\ migrationKey = "true"

\* the abandoned run had rewritten one favorite and the later run the other
InterruptedConvergesWitness ==
    /\ calls = 2
    /\ mig2 = IdleRun
    /\ mig.pc = "done"
    /\ mig.ret = 1
    /\ {OldId1, OldId2} \subseteq Rewritten(store0)
    /\ DOMAIN store = {NewId1, NewId2}
    /\ migrationKey = "true"

\* C30 - overlapping migration runs are harmless: when two runs both passed
\* the flag check and both returned, whatever the order of their storage
\* calls, the store is the one a single run makes of the store the session
\* found, and the flag is set.
OverlappingHarmless ==
    (/\ mig.pc = "done" /\ mig.storeCalls >= 1
     /\ mig2.pc = "done" /\ mig2.storeCalls >= 1) =>
        /\ store = MigratedStore(store0)
        /\ migrationKey = "true"

\* both runs rewrote the same favorite
OverlappingHarmlessWitness ==
    /\ mig.pc = "done"
    /\ mig2.pc = "done"
    /\ mig.ret >= 1
    /\ mig2.ret >= 1
    /\ OldId1 \in Rewritten(store0)
    /\ NewId1 \in DOMAIN store
    /\ OldId1 \notin DOMAIN store

\* C10 - migration idempotence: a call of migrateFavorites made when the
\* migration flag is already set returns 0 at once, without issuing any
\* call on the favorites store or opening the database, and leaves the
\* store and the flag exactly as they were.
MigrationIdempotent ==
    [][(calls' = calls + 1 /\ migrationKey = "true") =>
          /\ mig'.pc = "done"
          /\ mig'.ret = 0
          /\ mig'.storeCalls = 0
          /\ store' = store
          /\ dbOpen' = dbOpen
          /\ migrationKey' = migrationKey]_vars

MigrationIdempotentWitness ==
    /\ calls = 2
    /\ mig.pc = "done"
    /\ mig.flagAtCall
    /\ mig.ret = 0
    /\ mig.storeCalls = 0
    /\ migrationKey = "true"
    /\ NewId1 \in DOMAIN store
    /\ OldId1 \notin DOMAIN store
    /\ OldId2 \in DOMAIN store

====
